---- MODULE Spec2Model ----
(***************************************************************************)
(* Model of the provider dispatch engine of routes/proxy.js (the later     *)
(* version of the file, lines 126-266): the credential table and request   *)
(* shaping, the per-provider retry loop (callProvider), the ordered        *)
(* fallback of the /chat handler, the answer normalizer (extractAnswer)    *)
(* and the response cache.  JavaScript strings are sequences of            *)
(* one-character strings.                                                  *)
(***************************************************************************)
EXTENDS Integers, Sequences, FiniteSets, TLC

VARIABLES
    KEY_MAP,      \* proxy.js:145  credential table, in iteration order
    ATTEMPTS,     \* proxy.js:141  retry budget of one callProvider call
    CACHE_TTL,    \* proxy.js:142  stdTTL of the cache, in clock ticks
    PROVIDERS,    \* proxy.js:135  default provider list
    now,          \* wall clock, in the unit of CACHE_TTL
    cache,        \* proxy.js:159  text -> entry of the NodeCache
    req,          \* one record per request slot: the /chat handler's locals
    started,      \* number of requests received so far
    wrote,        \* history: the cache writes still within their TTL, oldest first
    shIn, shOut,  \* input and result of one request shaping
    nmIn, nmOut   \* input and result of one extractAnswer call

vars == <<KEY_MAP, ATTEMPTS, CACHE_TTL, PROVIDERS, now, cache, req, started, wrote,
          shIn, shOut, nmIn, nmOut>>

-----------------------------------------------------------------------------
(* Bounds *)

MaxFrags == 5
MaxQLen == 2
MaxChoices == 1
NSlots == 2
MaxRequests == 3
MaxAttempts == 3
MaxProviders == 2
MaxTTL == 1
MaxTime == 2
MaxPairs == 2

-----------------------------------------------------------------------------
(* String primitives of JavaScript used by the code *)

\* p occurs in s starting at (1-based) position i
MatchAt(s, p, i) ==
    /\ i >= 1
    /\ i + Len(p) - 1 <= Len(s)
    /\ \A k \in 1..Len(p) : s[i + k - 1] = p[k]

\* String.prototype.includes
Includes(s, p) == \E i \in 1..(Len(s) + 1) : MatchAt(s, p, i)

\* String.prototype.endsWith
EndsWith(s, p) == MatchAt(s, p, Len(s) - Len(p) + 1)

\* String.prototype.startsWith
StartsWith(s, p) == MatchAt(s, p, 1)

\* number of positions of s at which p occurs
Occurrences(s, p) == Cardinality({i \in 1..(Len(s) + 1) : MatchAt(s, p, i)})

ImageEq == <<"i", "m", "a", "g", "e", "=">>

\* characters encodeURIComponent leaves alone (those of them the model uses)
Unreserved == {"x", "q", "i", "m", "a", "g", "e", "o", "k", "h", "f"}

PercentCode(c) ==
    CASE c = "&" -> <<"%", "2", "6">>
      [] c = "=" -> <<"%", "3", "D">>
      [] c = "?" -> <<"%", "3", "F">>
      [] c = " " -> <<"%", "2", "0">>
      [] OTHER   -> <<c>>

RECURSIVE encodeURIComponent(_)
encodeURIComponent(s) ==
    IF s = <<>> THEN <<>>
    ELSE (IF Head(s) \in Unreserved THEN <<Head(s)>> ELSE PercentCode(Head(s)))
         \o encodeURIComponent(Tail(s))

\* providerUrl.split("?")[0]
SplitBase(url) ==
    IF Includes(url, <<"?">>)
    THEN LET i == CHOOSE j \in 1..Len(url) :
                      /\ url[j] = "?"
                      /\ \A k \in 1..(j - 1) : url[k] # "?"
         IN SubSeq(url, 1, i - 1)
    ELSE url

\* providerUrl.replace(/q=[^&]*/, "q=" + enc): the leftmost match only
ReplaceQ(url, enc) ==
    IF Includes(url, <<"q", "=">>)
    THEN LET i == CHOOSE j \in 1..Len(url) :
                      /\ MatchAt(url, <<"q", "=">>, j)
                      /\ \A k \in 1..(j - 1) : ~MatchAt(url, <<"q", "=">>, k)
             e == CHOOSE j \in (i + 2)..(Len(url) + 1) :
                      /\ j = Len(url) + 1 \/ url[j] = "&"
                      /\ \A k \in (i + 2)..(j - 1) : url[k] # "&"
         IN SubSeq(url, 1, i - 1) \o <<"q", "=">> \o enc
                \o SubSeq(url, e, Len(url))
    ELSE url

-----------------------------------------------------------------------------
(* JavaScript values *)

Null == [kind |-> "null"]
Undefined == [kind |-> "undefined"]
Str(s) == [kind |-> "str", str |-> s]
Num(n) == [kind |-> "num", num |-> n]
Arr(items) == [kind |-> "arr", items |-> items]
Message(content) == [kind |-> "msg", content |-> content]
Choice(text, message) == [kind |-> "choice", text |-> text, message |-> message]
Obj(result, answer, output, choices) ==
    [kind |-> "obj", result |-> result, answer |-> answer, output |-> output,
     choices |-> choices]

\* JavaScript truthiness of the values above
Truthy(v) ==
    CASE v.kind = "null"      -> FALSE
      [] v.kind = "undefined" -> FALSE
      [] v.kind = "str"       -> v.str # <<>>
      [] v.kind = "num"       -> v.num # 0
      [] OTHER                -> TRUE

\* String.prototype.trim
RECURSIVE TrimLeft(_)
TrimLeft(s) == IF s # <<>> /\ Head(s) = " " THEN TrimLeft(Tail(s)) ELSE s

RECURSIVE TrimRight(_)
TrimRight(s) ==
    IF s # <<>> /\ s[Len(s)] = " " THEN TrimRight(SubSeq(s, 1, Len(s) - 1)) ELSE s

Trim(s) == TrimRight(TrimLeft(s))

-----------------------------------------------------------------------------
(* Credential Resolver: the table KEY_MAP and findKeyForProvider *)

\* KEY_MAP[prefix] = key: a known prefix keeps its place in the iteration
\* order and gets the new key, a new one goes to the end
SetEntry(table, prefix, key) ==
    IF \E i \in 1..Len(table) : table[i].prefix = prefix
    THEN [i \in 1..Len(table) |->
             IF table[i].prefix = prefix
             THEN [prefix |-> prefix, key |-> key]
             ELSE table[i]]
    ELSE Append(table, [prefix |-> prefix, key |-> key])

\* process.env.KEY_MAP.split(",").forEach(...): pairs are the "prefix|key"
\* items (a missing key is the empty one), table the object built so far
RECURSIVE ParseKeyMap(_, _)
ParseKeyMap(table, pairs) ==
    IF pairs = <<>> THEN table
    ELSE ParseKeyMap(
            IF Head(pairs).prefix # <<>> /\ Head(pairs).key # <<>>
            THEN SetEntry(table, Trim(Head(pairs).prefix), Trim(Head(pairs).key))
            ELSE table,
            Tail(pairs))

\* for (const prefix in table) if (url.startsWith(prefix)) return table[prefix]
RECURSIVE KeyIn(_, _)
KeyIn(table, url) ==
    IF table = <<>> THEN Null
    ELSE IF StartsWith(url, Head(table).prefix) THEN Str(Head(table).key)
    ELSE KeyIn(Tail(table), url)

findKeyForProvider(url) == KeyIn(KEY_MAP, url)

Bearer == <<"B", "e", "a", "r", "e", "r", " ">>

\* if (key) headers["Authorization"] = `Bearer ${key}`
Authorization(key) == IF Truthy(key) THEN Str(Bearer \o key.str) ELSE Undefined

-----------------------------------------------------------------------------
(* Request Shaper: the shape decision inside callProvider *)

IsMultipart(url, file) == file /\ Includes(url, ImageEq)

IsGet_NoImageCheck(url) ==
    /\ Includes(url, <<"?">>)
    /\ Includes(url, <<"=">>)

IsGet(url) ==
    /\ Includes(url, <<"?">>)
    /\ Includes(url, <<"=">>)
    /\ ~Includes(url, ImageEq)

urlToCall(url, q) ==
    IF EndsWith(url, <<"=">>) THEN url \o encodeURIComponent(q)
    ELSE IF Includes(url, <<"=", "q">>) THEN ReplaceQ(url, encodeURIComponent(q))
    ELSE url \o encodeURIComponent(q)

\* the outbound request of one attempt; text is the q sent in the body
\* (multipart field q only when q is non-empty, JSON member q always)
ShapedRequest(url, q, file) ==
    IF IsMultipart(url, file)
    THEN [shape |-> "multipart", method |-> "POST", target |-> SplitBase(url),
          hasText |-> (q # <<>>), text |-> q,
          auth |-> Authorization(findKeyForProvider(url))]
    ELSE IF IsGet(url)
    THEN [shape |-> "get", method |-> "GET", target |-> urlToCall(url, q),
          hasText |-> FALSE, text |-> <<>>,
          auth |-> Authorization(findKeyForProvider(url))]
    ELSE [shape |-> "json", method |-> "POST", target |-> url,
          hasText |-> TRUE, text |-> q,
          auth |-> Authorization(findKeyForProvider(url))]

-----------------------------------------------------------------------------
(* Answer Normalizer: extractAnswer *)

\* data.choices?.[0]?.text
ChoiceText(data) ==
    IF data.choices.kind = "arr" /\ Len(data.choices.items) > 0
    THEN data.choices.items[1].text
    ELSE Undefined

\* data.choices?.[0]?.message?.content
ChoiceContent(data) ==
    IF /\ data.choices.kind = "arr"
       /\ Len(data.choices.items) > 0
       /\ data.choices.items[1].message.kind = "msg"
    THEN data.choices.items[1].message.content
    ELSE Undefined

\* JSON.stringify, as a sequence of text pieces; members whose value is
\* undefined are left out, as JSON.stringify does
Quote(s) == <<"\"">> \o s \o <<"\"">>

JsonScalar(v) ==
    CASE v.kind = "str"  -> Quote(v.str)
      [] v.kind = "num"  -> <<ToString(v.num)>>
      [] OTHER           -> <<"null">>

JsonMember(name, v) ==
    IF v.kind = "undefined" THEN <<>> ELSE << <<name, ":">> \o JsonScalar(v) >>

RECURSIVE JoinComma(_)
JoinComma(parts) ==
    IF parts = <<>> THEN <<>>
    ELSE IF Len(parts) = 1 THEN parts[1]
    ELSE parts[1] \o <<",">> \o JoinComma(Tail(parts))

JsonMessage(m) ==
    <<"{">> \o JoinComma(JsonMember("content", m.content)) \o <<"}">>

JsonChoice(c) ==
    <<"{">>
    \o JoinComma(JsonMember("text", c.text)
                 \o (IF c.message.kind = "msg"
                     THEN << <<"message", ":">> \o JsonMessage(c.message) >>
                     ELSE <<>>))
    \o <<"}">>

JsonChoices(ch) ==
    IF ch.kind = "arr"
    THEN << <<"choices", ":", "[">>
            \o JoinComma([i \in 1..Len(ch.items) |-> JsonChoice(ch.items[i])])
            \o <<"]">> >>
    ELSE <<>>

JSONstringify(data) ==
    IF data.kind = "obj"
    THEN <<"{">>
         \o JoinComma(JsonMember("result", data.result)
                      \o JsonMember("answer", data.answer)
                      \o JsonMember("output", data.output)
                      \o JsonChoices(data.choices))
         \o <<"}">>
    ELSE JsonScalar(data)

\* a member of a payload; a payload that is no object has no members
Field(data, name) ==
    IF data.kind # "obj" THEN Undefined
    ELSE CASE name = "result" -> data.result
           [] name = "answer" -> data.answer
           [] name = "output" -> data.output
           [] name = "text"   -> ChoiceText(data)
           [] OTHER           -> ChoiceContent(data)

\* answer probed before result
extractAnswer_AnswerFirst(data) ==
    IF ~Truthy(data) THEN Null
    ELSE IF data.kind = "str" THEN data
    ELSE IF Truthy(Field(data, "answer")) THEN Field(data, "answer")
    ELSE IF Truthy(Field(data, "result")) THEN Field(data, "result")
    ELSE IF Truthy(Field(data, "output")) THEN Field(data, "output")
    ELSE IF Truthy(Field(data, "text")) THEN Field(data, "text")
    ELSE IF Truthy(Field(data, "content")) THEN Field(data, "content")
    ELSE Str(JSONstringify(data))

\* the guard against a null payload written as data == null
extractAnswer_NullGuardOnly(data) ==
    IF data.kind \in {"null", "undefined"} THEN Null
    ELSE IF data.kind = "str" THEN data
    ELSE IF Truthy(Field(data, "result")) THEN Field(data, "result")
    ELSE IF Truthy(Field(data, "answer")) THEN Field(data, "answer")
    ELSE IF Truthy(Field(data, "output")) THEN Field(data, "output")
    ELSE IF Truthy(Field(data, "text")) THEN Field(data, "text")
    ELSE IF Truthy(Field(data, "content")) THEN Field(data, "content")
    ELSE Str(JSONstringify(data))

extractAnswer(data) ==
    IF ~Truthy(data) THEN Null
    ELSE IF data.kind = "str" THEN data
    ELSE IF Truthy(Field(data, "result")) THEN Field(data, "result")
    ELSE IF Truthy(Field(data, "answer")) THEN Field(data, "answer")
    ELSE IF Truthy(Field(data, "output")) THEN Field(data, "output")
    ELSE IF Truthy(Field(data, "text")) THEN Field(data, "text")
    ELSE IF Truthy(Field(data, "content")) THEN Field(data, "content")
    ELSE Str(JSONstringify(data))

-----------------------------------------------------------------------------
(* The /chat handler: configuration, cache and request slots *)

Slots == 1..NSlots

UrlGet == <<"h", "?", "q", "=">>
UrlImg == <<"h", "?", "i", "m", "a", "g", "e", "=">>
ProviderUrls == {UrlGet, UrlImg}

RECURSIVE SeqsUpTo(_, _)
SeqsUpTo(S, n) ==
    IF n = 0 THEN {<<>>}
    ELSE LET shorter == SeqsUpTo(S, n - 1)
         IN shorter \cup {Append(t, x) : t \in {u \in shorter : Len(u) = n - 1}, x \in S}

Texts == {<<>>, <<"f">>}
NoFile == "none"
Files == {"f1", "f2"}

Payloads ==
    {Null, Str(<<"o", "k">>),
     Obj(Str(<<"h", "i">>), Undefined, Undefined, Undefined)}

\* the value of req.body.providers: absent, or the items between its commas
\* (the empty string is the single empty item)
NoOverride == [given |-> FALSE, items |-> <<>>]
EmptyOverride == [given |-> TRUE, items |-> << <<>> >>]
RawItems == ProviderUrls \cup {<<" ">>}
Overrides ==
    {NoOverride, EmptyOverride}
    \cup {[given |-> TRUE, items |-> l] : l \in SeqsUpTo(RawItems, MaxProviders) \ {<<>>}}

\* .split(",").map(p => p.trim()).filter(Boolean)
RECURSIVE TrimAndFilter(_)
TrimAndFilter(items) ==
    IF items = <<>> THEN <<>>
    ELSE (IF Trim(Head(items)) = <<>> THEN <<>> ELSE <<Trim(Head(items))>>)
         \o TrimAndFilter(Tail(items))

\* the override's items put in front of the default list
EffectiveProviders_Merged(custom) ==
    IF custom.given /\ custom.items # << <<>> >>
    THEN TrimAndFilter(custom.items) \o PROVIDERS
    ELSE PROVIDERS

\* customProviders ? ... : PROVIDERS   (the empty string is falsy)
EffectiveProviders(custom) ==
    IF custom.given /\ custom.items # << <<>> >>
    THEN TrimAndFilter(custom.items)
    ELSE PROVIDERS

Chat == <<"c", "h", "a", "t", ":">>

\* the key without the text
cacheKey_Constant(q) == Chat

\* `chat:${q}`
cacheKey(q) == Chat \o q
Keys == {cacheKey(q) : q \in Texts}

\* an entry: exp is its expiry time, 0 for none; at (when it was set) and by
\* (the text and payload of the request that set it) are history
NoWriter == [q |-> <<>>, data |-> Null]
NoEntry == [present |-> FALSE, data |-> Null, exp |-> 0, at |-> 0, by |-> NoWriter]

\* the TTL handed over in milliseconds, where NodeCache counts seconds
stdTTL_Millis == CACHE_TTL * 1000

\* new NodeCache({ stdTTL: CACHE_TTL })
stdTTL == CACHE_TTL

\* NodeCache: the expiry time of the entry has passed
Expired(entry) == entry.present /\ entry.exp # 0 /\ entry.exp < now

\* NodeCache.get: an entry whose expiry time has passed is a miss
cacheGet(key) ==
    IF cache[key].present /\ ~Expired(cache[key]) THEN cache[key] ELSE NoEntry

\* NodeCache.get deletes the expired entry it finds
cacheAfterGet(key) ==
    IF Expired(cache[key])
    THEN [cache EXCEPT ![key] = NoEntry]
    ELSE cache

\* NodeCache.set with the standard TTL
cacheSet(key, value) ==
    [cache EXCEPT ![key] =
        [present |-> TRUE, data |-> value,
         exp |-> IF stdTTL = 0 THEN 0 ELSE now + stdTTL,
         at |-> now, by |-> NoWriter]]

\* every answer under the one key "chat:"
StoreAnswer_WrongKey(key, answer) == cacheSet(Chat, answer)

\* the second of two writers keeps the entry it finds
StoreAnswer_IfAbsent(key, answer) ==
    IF cacheGet(key).present THEN cache ELSE cacheSet(key, answer)

\* cache.set(cacheKey, answer)
StoreAnswer(key, answer) == cacheSet(key, answer)

MissingInput == [status |-> 400, outcome |-> "MissingInput", body |-> Null]
NoProvidersConfigured ==
    [status |-> 500, outcome |-> "NoProvidersConfigured", body |-> Null]
AllProvidersFailed_WrongStatus ==
    [status |-> 500, outcome |-> "NoProvidersConfigured", body |-> Null]

AllProvidersFailed ==
    [status |-> 502, outcome |-> "AllProvidersFailed", body |-> Null]
Answer(a) == [status |-> 200, outcome |-> "Answer", body |-> a]
NoResponse == [status |-> 0, outcome |-> "none", body |-> Null]

\* what the latest callProvider call returned: attempt is the attempt whose
\* error (or payload) it carries, -1 for the error made after the loop
NoResult ==
    [returned |-> FALSE, success |-> FALSE, idx |-> 0, attempt |-> -1, data |-> Null]

IdleReq ==
    [pc |-> "idle", q |-> <<>>, file |-> NoFile, providers |-> <<>>,
     idx |-> 0, attempt |-> 0, log |-> <<>>, result |-> NoResult, delay |-> 0,
     res |-> NoResponse, hit |-> FALSE, expect |-> <<>>, expectFiles |-> <<>>,
     seenAge |-> -1, custom |-> NoOverride]

InputMissing_Or(q, file) == q = <<>> \/ file = NoFile

\* if (!q && !req.file)
InputMissing(q, file) == q = <<>> /\ file = NoFile

\* the test of the earlier version's entries, objects { provider, data }
ServeFromCache_ObjectEntry(cached) == cached.present /\ cached.data.kind = "obj"

\* if (cached)
ServeFromCache(cached) == cached.present /\ Truthy(cached.data)

\* attempt < ATTEMPTS
LoopCond(attempt) == attempt < ATTEMPTS

LastAttempt_OffByOne(attempt) == attempt = ATTEMPTS

\* attempt === ATTEMPTS - 1
LastAttempt(attempt) == attempt = ATTEMPTS - 1

Backoff_ZeroBased(attempt) == 200 * attempt

\* 200 * (attempt + 1)
Backoff(attempt) == 200 * (attempt + 1)

Unusable_Inverted(answer) == Truthy(answer)

\* the earlier version of the loop: whatever a successful call returned is used
Unusable_Never(answer) == FALSE

\* if (!answer) continue
Unusable(answer) == ~Truthy(answer)

Finish(r, response) == [r EXCEPT !.pc = "done", !.res = response]

\* one attempt counter for the whole list, never set back
NextProvider_KeepAttempt(r) ==
    IF r.idx < Len(r.providers)
    THEN [r EXCEPT !.pc = "calling", !.idx = r.idx + 1]
    ELSE Finish(r, AllProvidersFailed)

\* the for-of loop moves on: the next provider's first attempt, or the 502
NextProvider(r) ==
    IF r.idx < Len(r.providers)
    THEN [r EXCEPT !.pc = "calling", !.idx = r.idx + 1, !.attempt = 0]
    ELSE Finish(r, AllProvidersFailed)

\* the failure of one provider ends the request
ProviderFailed_Surfaced(r, attempt) ==
    Finish(r, [status |-> 500, outcome |-> "ProviderError", body |-> Null])

\* callProvider has returned { success: false, error }
ProviderFailed(r, attempt) ==
    NextProvider([r EXCEPT !.result =
                     [returned |-> TRUE, success |-> FALSE, idx |-> r.idx,
                      attempt |-> attempt, data |-> Null]])

\* one outbound request, as recorded in the request's history
LogEntry(r, ok, data) ==
    [idx |-> r.idx, attempt |-> r.attempt, ok |-> ok, data |-> data,
     sent |-> ShapedRequest(r.providers[r.idx], r.q, r.file # NoFile)]

\* history: the answers of the writes for text q still within their TTL
RECURSIVE AnswersFor(_, _)
AnswersFor(w, q) ==
    IF w = <<>> THEN <<>>
    ELSE (IF Head(w).q = q THEN <<Head(w).answer>> ELSE <<>>)
         \o AnswersFor(Tail(w), q)

\* history: the files of the requests that made those writes
RECURSIVE FilesFor(_, _)
FilesFor(w, q) ==
    IF w = <<>> THEN <<>>
    ELSE (IF Head(w).q = q THEN <<Head(w).file>> ELSE <<>>)
         \o FilesFor(Tail(w), q)

RECURSIVE Unexpired(_, _)
Unexpired(w, t) ==
    IF w = <<>> THEN <<>>
    ELSE (IF Head(w).at + CACHE_TTL < t THEN <<>> ELSE <<Head(w)>>)
         \o Unexpired(Tail(w), t)

-----------------------------------------------------------------------------
(* Actions *)

\* router.post("/chat") up to its first await
Receive(s, q, file, custom) ==
    /\ req[s].pc \in {"idle", "done"}
    /\ started' = started + 1
    /\ LET r0 == [IdleReq EXCEPT !.q = q, !.file = file, !.custom = custom,
                                 !.expect = AnswersFor(wrote, q),
                                 !.expectFiles = FilesFor(wrote, q),
                                 !.seenAge = IF InputMissing(q, file)
                                                \/ ~cache[cacheKey(q)].present
                                             THEN -1
                                             ELSE now - cache[cacheKey(q)].at]
           cached == cacheGet(cacheKey(q))
           providers == EffectiveProviders(custom)
       IN IF InputMissing(q, file)
          THEN /\ req' = [req EXCEPT ![s] = Finish(r0, MissingInput)]
               /\ cache' = cache
          ELSE /\ cache' = cacheAfterGet(cacheKey(q))
               /\ IF ServeFromCache(cached)
                  THEN req' = [req EXCEPT ![s] =
                                 [Finish(r0, Answer(cached.data)) EXCEPT !.hit = TRUE]]
                  ELSE IF Len(providers) = 0
                  THEN req' = [req EXCEPT ![s] = Finish(r0, NoProvidersConfigured)]
                  ELSE req' = [req EXCEPT ![s] =
                                 IF LoopCond(0)
                                 THEN [r0 EXCEPT !.pc = "calling",
                                                 !.providers = providers,
                                                 !.idx = 1, !.attempt = 0]
                                 ELSE ProviderFailed(
                                        [r0 EXCEPT !.providers = providers,
                                                   !.idx = 1], -1)]
    /\ UNCHANGED <<KEY_MAP, ATTEMPTS, CACHE_TTL, PROVIDERS, now, wrote,
                   shIn, shOut, nmIn, nmOut>>

\* the awaited axios call resolves: callProvider returns success and the
\* handler normalizes, caches and answers, or goes on to the next provider
RespondOk(s, data) ==
    /\ req[s].pc = "calling"
    /\ LET r == [req[s] EXCEPT !.log = Append(@, LogEntry(req[s], TRUE, data)),
                               !.result = [returned |-> TRUE, success |-> TRUE,
                                           idx |-> req[s].idx,
                                           attempt |-> req[s].attempt,
                                           data |-> data]]
           answer == extractAnswer(data)
       IN IF Unusable(answer)
          THEN /\ req' = [req EXCEPT ![s] = NextProvider(r)]
               /\ UNCHANGED <<cache, wrote>>
          ELSE /\ cache' = [StoreAnswer(cacheKey(r.q), answer)
                              EXCEPT ![cacheKey(r.q)].by = [q |-> r.q, data |-> data]]
               /\ wrote' = Append(wrote, [q |-> r.q, file |-> r.file,
                                          answer |-> answer, at |-> now])
               /\ req' = [req EXCEPT ![s] = Finish(r, Answer(answer))]
    /\ UNCHANGED <<KEY_MAP, ATTEMPTS, CACHE_TTL, PROVIDERS, now, started,
                   shIn, shOut, nmIn, nmOut>>

\* the awaited axios call rejects (transport failure or timeout): the catch
\* block returns the failure on the last attempt and backs off otherwise
RespondFail(s) ==
    /\ req[s].pc = "calling"
    /\ LET r == [req[s] EXCEPT !.log = Append(@, LogEntry(req[s], FALSE, Null))]
       IN req' = [req EXCEPT ![s] =
                    IF LastAttempt(r.attempt)
                    THEN ProviderFailed(r, r.attempt)
                    ELSE [r EXCEPT !.pc = "sleeping",
                                   !.delay = Backoff(r.attempt)]]
    /\ UNCHANGED <<KEY_MAP, ATTEMPTS, CACHE_TTL, PROVIDERS, now, cache, started, wrote,
                   shIn, shOut, nmIn, nmOut>>

\* the backoff timer fires: attempt++ and the loop condition
Wake(s) ==
    /\ req[s].pc = "sleeping"
    /\ req' = [req EXCEPT ![s] =
                 IF LoopCond(req[s].attempt + 1)
                 THEN [req[s] EXCEPT !.pc = "calling",
                                     !.attempt = req[s].attempt + 1]
                 ELSE ProviderFailed(req[s], -1)]
    /\ UNCHANGED <<KEY_MAP, ATTEMPTS, CACHE_TTL, PROVIDERS, now, cache, started, wrote,
                   shIn, shOut, nmIn, nmOut>>

\* time passes
Tick ==
    /\ now < MaxTime
    /\ now' = now + 1
    /\ wrote' = Unexpired(wrote, now + 1)
    /\ UNCHANGED <<KEY_MAP, ATTEMPTS, CACHE_TTL, PROVIDERS, cache, req, started,
                   shIn, shOut, nmIn, nmOut>>

NoShapeIn == [url |-> <<>>, q |-> <<>>, file |-> FALSE]
NoShapeOut == [shape |-> "none"]
NoNormIn == Null
NoNormOut == [kind |-> "none"]

DefaultLists == {<<>>, <<UrlImg, UrlGet>>}

\* Number(process.env.PROVIDER_ATTEMPTS || 2)
DefaultAttempts == 2

Init ==
    /\ KEY_MAP = <<>>
    /\ ATTEMPTS \in 1..MaxAttempts
    /\ CACHE_TTL \in 1..MaxTTL
    /\ PROVIDERS \in DefaultLists
    /\ now = 0
    /\ cache = [k \in Keys |-> NoEntry]
    /\ req = [s \in Slots |-> IdleReq]
    /\ started = 0
    /\ wrote = <<>>
    /\ shIn = NoShapeIn
    /\ shOut = NoShapeOut
    /\ nmIn = NoNormIn
    /\ nmOut = NoNormOut

\* one request through the handler, every configuration and every input
Next ==
    \/ \E q \in Texts, file \in Files \cup {NoFile}, custom \in Overrides :
          req[1].pc = "idle" /\ Receive(1, q, file, custom)
    \/ \E data \in Payloads : RespondOk(1, data)
    \/ RespondFail(1)
    \/ Wake(1)

Spec == Init /\ [][Next]_vars

\* up to MaxRequests requests, NSlots of them in flight together: the default
\* attempt budget, one default provider, text-only requests
InitConc ==
    /\ KEY_MAP = <<>>
    /\ ATTEMPTS = DefaultAttempts
    /\ CACHE_TTL \in 1..MaxTTL
    /\ PROVIDERS = <<UrlGet>>
    /\ now = 0
    /\ cache = [k \in Keys |-> NoEntry]
    /\ req = [s \in Slots |-> IdleReq]
    /\ started = 0
    /\ wrote = <<>>
    /\ shIn = NoShapeIn
    /\ shOut = NoShapeOut
    /\ nmIn = NoNormIn
    /\ nmOut = NoNormOut

NextConc ==
    \/ \E s \in Slots, q \in Texts \ {<<>>} :
          started < MaxRequests /\ Receive(s, q, NoFile, NoOverride)
    \/ \E s \in Slots, data \in Payloads : RespondOk(s, data)
    \/ \E s \in Slots : RespondFail(s)
    \/ \E s \in Slots : Wake(s)
    \/ Tick

SpecConc == InitConc /\ [][NextConc]_vars

\* up to MaxRequests requests one after the other, with or without text, file
\* and override, while time passes
BlankOverride == [given |-> TRUE, items |-> << <<" ">> >>]

NextCache ==
    \/ \E q \in Texts, file \in Files \cup {NoFile},
          custom \in {NoOverride, BlankOverride} :
          started < MaxRequests /\ Receive(1, q, file, custom)
    \/ \E data \in Payloads : RespondOk(1, data)
    \/ RespondFail(1)
    \/ Wake(1)
    \/ Tick

SpecCache == InitConc /\ [][NextCache]_vars

\* one request, every outbound request of which is answered or fails, and
\* every backoff timer of which fires
InitLive == Init /\ CACHE_TTL = 1

\* the awaited axios call settles
Settle(s) == (\E data \in Payloads : RespondOk(s, data)) \/ RespondFail(s)

NextLive ==
    \/ \E q \in Texts, file \in Files \cup {NoFile},
          custom \in {NoOverride, BlankOverride} :
          req[1].pc = "idle" /\ Receive(1, q, file, custom)
    \/ Settle(1)
    \/ Wake(1)

SpecLive ==
    InitLive /\ [][NextLive]_vars /\ WF_vars(Settle(1)) /\ WF_vars(Wake(1))

-----------------------------------------------------------------------------
(* The Request Shaper on its own: every identifier built from a few pieces *)

UrlFrags == {<<"?">>, <<"=">>, <<"q">>, <<"&">>, ImageEq}
QueryChars == {"q", "&"}

RECURSIVE Flatten(_)
Flatten(ss) == IF ss = <<>> THEN <<>> ELSE Head(ss) \o Flatten(Tail(ss))

ShaperUrls == {Flatten(fs) : fs \in SeqsUpTo(UrlFrags, MaxFrags)}
ShaperQueries == SeqsUpTo(QueryChars, MaxQLen)

MainIdle ==
    /\ ATTEMPTS = 1
    /\ CACHE_TTL = 1
    /\ PROVIDERS = <<>>
    /\ now = 0
    /\ cache = [k \in Keys |-> NoEntry]
    /\ req = [s \in Slots |-> IdleReq]
    /\ started = 0
    /\ wrote = <<>>

InitShaper ==
    /\ KEY_MAP = <<>>
    /\ MainIdle
    /\ shIn \in [url : ShaperUrls, q : ShaperQueries, file : BOOLEAN]
    /\ shOut = NoShapeOut
    /\ nmIn = NoNormIn
    /\ nmOut = NoNormOut

\* one attempt of callProvider shapes its request
Shape ==
    /\ shOut = NoShapeOut
    /\ shOut' = ShapedRequest(shIn.url, shIn.q, shIn.file)
    /\ UNCHANGED <<KEY_MAP, ATTEMPTS, CACHE_TTL, PROVIDERS, now, cache, req, started,
                   wrote, shIn, nmIn, nmOut>>

NextShaper == Shape

SpecShaper == InitShaper /\ [][NextShaper]_vars

-----------------------------------------------------------------------------
(* The Credential Resolver on its own: every table parsed from up to MaxPairs
   "prefix|key" items, every shape of request *)

RawPrefixes == {<<>>, <<" ">>, <<"h">>, <<"h", "?", "q">>, <<"x">>}
RawKeys == {<<>>, <<" ">>, <<"k", "1">>, <<"k", "2">>}
KeyMapEnvs == SeqsUpTo([prefix : RawPrefixes, key : RawKeys], MaxPairs)
CredentialUrls == {UrlGet, UrlImg, <<"h">>, <<"x", "?", "q", "=">>}

InitCredential ==
    /\ MainIdle
    /\ shIn \in [url : CredentialUrls, q : {<<"f">>}, file : BOOLEAN,
                  env : KeyMapEnvs]
    /\ KEY_MAP = ParseKeyMap(<<>>, shIn.env)
    /\ shOut = NoShapeOut
    /\ nmIn = NoNormIn
    /\ nmOut = NoNormOut

SpecCredential == InitCredential /\ [][NextShaper]_vars

-----------------------------------------------------------------------------
(* The Answer Normalizer on its own: every payload of a few shapes *)

FieldValues(c) == {Undefined, Str(<<>>), Str(<<c>>)}

ChoiceValues ==
    {Choice(t, m) : t \in FieldValues("T"),
                    m \in {Undefined} \cup {Message(c) : c \in FieldValues("C")}}

NormPayloads ==
    {Null, Undefined, Str(<<>>), Str(<<"S">>), Num(0), Num(1)}
    \cup {Obj(r, a, o, ch) :
            r \in FieldValues("R"), a \in FieldValues("A"), o \in FieldValues("O"),
            ch \in {Undefined} \cup {Arr(l) : l \in SeqsUpTo(ChoiceValues, MaxChoices)}}

InitNormalizer ==
    /\ KEY_MAP = <<>>
    /\ MainIdle
    /\ shIn = NoShapeIn
    /\ shOut = NoShapeOut
    /\ nmIn \in NormPayloads
    /\ nmOut = NoNormOut

\* the handler normalizes one provider payload
Normalize ==
    /\ nmOut = NoNormOut
    /\ nmOut' = extractAnswer(nmIn)
    /\ UNCHANGED <<KEY_MAP, ATTEMPTS, CACHE_TTL, PROVIDERS, now, cache, req, started,
                   wrote, shIn, shOut, nmIn>>

NextNormalizer == Normalize

SpecNormalizer == InitNormalizer /\ [][NextNormalizer]_vars

-----------------------------------------------------------------------------
(* Properties of the dispatch loop and of callProvider *)

\* the outbound requests request r made to the provider at position k
CallsTo(r, k) == {i \in 1..Len(r.log) : r.log[i].idx = k}

\* log entry e ended its provider without a usable answer
EndsInFailure(e) ==
    \/ ~e.ok /\ e.attempt = ATTEMPTS - 1
    \/ e.ok /\ ~Truthy(extractAnswer(e.data))

UsableAnswer(e) == e.ok /\ Truthy(extractAnswer(e.data))

\* C1: providers are invoked strictly in list order; provider k is invoked only
\* after every provider before it has failed (retries exhausted, or an unusable
\* answer); once a provider yields a usable answer no further request is made
\* and the response is that provider's normalized payload.
FallbackOrdering ==
    \A s \in Slots :
        LET r == req[s]
            L == r.log
        IN /\ \A i, j \in 1..Len(L) : i < j => L[i].idx <= L[j].idx
           /\ \A j \in 1..Len(L) : \A k \in 1..(L[j].idx - 1) :
                 \E i \in 1..(j - 1) : L[i].idx = k /\ EndsInFailure(L[i])
           /\ r.pc \in {"calling", "sleeping"} =>
                 \A k \in 1..(r.idx - 1) :
                    \E i \in 1..Len(L) : L[i].idx = k /\ EndsInFailure(L[i])
           /\ \A i \in 1..Len(L) :
                 UsableAnswer(L[i]) =>
                    /\ i = Len(L)
                    /\ r.pc = "done"
                    /\ r.res.status = 200
                    /\ r.res.body = extractAnswer(L[i].data)
           /\ (r.pc = "done" /\ r.res.status = 200 /\ ~r.hit) =>
                 /\ L # <<>>
                 /\ UsableAnswer(L[Len(L)])

\* C1 witness: [A, B], A failed on every attempt, B answered "ok" at once
FallbackOrderingWitness ==
    \E s \in Slots :
        LET r == req[s]
        IN /\ r.pc = "done"
           /\ ATTEMPTS = 2
           /\ Len(r.providers) = 2
           /\ r.providers[1] # r.providers[2]
           /\ Len(r.log) = 3
           /\ \A i \in 1..2 : r.log[i].idx = 1 /\ ~r.log[i].ok
           /\ r.log[3].idx = 2 /\ r.log[3].ok
           /\ r.res.body = Str(<<"o", "k">>)

\* C2: when every request to every provider failed, the request ends with
\* 502 "All providers failed.", and no provider in the list received more than
\* ATTEMPTS requests.
Exhaustion ==
    \A s \in Slots :
        LET r == req[s]
        IN /\ \A k \in 1..Len(r.providers) : Cardinality(CallsTo(r, k)) <= ATTEMPTS
           /\ (/\ r.pc = "done"
               /\ r.log # <<>>
               /\ \A i \in 1..Len(r.log) : ~r.log[i].ok)
              => /\ r.res.status = 502
                 /\ r.res.outcome = "AllProvidersFailed"

\* C2 witness: two providers, each used up its two attempts
ExhaustionWitness ==
    \E s \in Slots :
        LET r == req[s]
        IN /\ r.pc = "done"
           /\ r.res.status = 502
           /\ ATTEMPTS = 2
           /\ Len(r.providers) = 2
           /\ Len(r.log) = 4
           /\ \A i \in 1..4 : ~r.log[i].ok

\* C4: one callProvider call sends at most ATTEMPTS requests, numbered from 0;
\* a success ends it at once; it returns Failure, carrying the error of
\* attempt ATTEMPTS - 1, exactly when all ATTEMPTS attempts failed; it never
\* sleeps after the last failed attempt.
RetryBound ==
    \A s \in Slots :
        LET r == req[s]
            L == r.log
            Failures(k) == {i \in CallsTo(r, k) : ~L[i].ok}
        IN /\ \A k \in 1..Len(r.providers) :
                 /\ Cardinality(CallsTo(r, k)) <= ATTEMPTS
                 /\ \A i \in CallsTo(r, k) :
                       L[i].attempt = Cardinality({j \in CallsTo(r, k) : j < i})
           /\ \A i, j \in 1..Len(L) : (L[i].ok /\ i < j) => L[j].idx # L[i].idx
           /\ \A i \in 1..Len(L) :
                 (L[i].ok /\ i = Len(L)) =>
                    /\ r.result.returned /\ r.result.success
                    /\ r.result.idx = L[i].idx
                    /\ r.result.data = L[i].data
           /\ (r.result.returned /\ ~r.result.success) =>
                 /\ r.result.attempt = ATTEMPTS - 1
                 /\ Cardinality(Failures(r.result.idx)) = ATTEMPTS
           /\ \A k \in 1..Len(r.providers) :
                 Cardinality(Failures(k)) = ATTEMPTS =>
                    \/ r.idx > k
                    \/ /\ r.pc = "done"
                       /\ r.result.returned /\ ~r.result.success
                       /\ r.result.idx = k
           /\ r.pc = "sleeping" => r.attempt < ATTEMPTS - 1

\* C4 witness: a call that failed twice returned the second attempt's error
RetryBoundWitness ==
    \E s \in Slots :
        LET r == req[s]
        IN /\ ATTEMPTS = 2
           /\ r.result.returned /\ ~r.result.success
           /\ r.result.attempt = 1
           /\ Len(r.log) = 2

\* C5: a request with neither text nor file, and only such a request, ends
\* with 400 MissingInput, without any outbound request.
MissingInputRejected ==
    \A s \in Slots :
        LET r == req[s]
        IN r.pc # "idle" =>
              /\ (r.q = <<>> /\ r.file = NoFile) <=> (r.res.status = 400)
              /\ r.res.status = 400 =>
                    /\ r.pc = "done"
                    /\ r.res.outcome = "MissingInput"
                    /\ r.log = <<>>

\* C5 witness: a request without text and without file was answered
MissingInputWitness ==
    \E s \in Slots :
        /\ req[s].pc = "done"
        /\ req[s].q = <<>>
        /\ req[s].file = NoFile
        /\ req[s].res.status = 400

-----------------------------------------------------------------------------
(* Properties of the cache in front of the dispatch loop *)

\* the request carried a text or a file
Valid(r) == r.q # <<>> \/ r.file # NoFile

\* C3, as stated: a (valid) request for text t that starts after a request for t has
\* obtained and cached an answer, within the TTL of that write, is served from
\* the cache without any outbound request and returns that same answer
\* (expect lists the answers of all such earlier requests).
CacheIdempotenceOriginal ==
    \A s \in Slots :
        LET r == req[s]
        IN (r.pc # "idle" /\ Valid(r) /\ r.expect # <<>>) =>
              /\ r.pc = "done"
              /\ r.hit
              /\ r.log = <<>>
              /\ \A i \in 1..Len(r.expect) : r.res.body = r.expect[i]

\* C3, amended: such a request is served from the cache without any outbound
\* request and returns the answer most recently cached for t before it
\* started: the first request's answer, unless another request for t that had
\* missed the cache wrote its own answer after the first one did.
CacheIdempotence ==
    \A s \in Slots :
        LET r == req[s]
        IN (r.pc # "idle" /\ Valid(r) /\ r.expect # <<>>) =>
              /\ r.pc = "done"
              /\ r.hit
              /\ r.log = <<>>
              /\ r.res.status = 200
              /\ r.res.body = r.expect[Len(r.expect)]
              /\ (\A i \in 1..Len(r.expect) : r.expect[i] = r.expect[1])
                    => r.res.body = r.expect[1]

\* C3 witness: a request served from the cache with the answer of the one
\* earlier request for its text
CacheIdempotenceWitness ==
    \E s \in Slots :
        /\ req[s].pc = "done"
        /\ req[s].hit
        /\ Len(req[s].expect) = 1
        /\ req[s].res.body = req[s].expect[1]
        /\ req[s].log = <<>>

-----------------------------------------------------------------------------
(* Properties of the Request Shaper *)

Shaped == shOut # NoShapeOut

\* C6: exactly one of the three shapes is selected, by first matching rule:
\* multipart iff a file is attached and the identifier contains "image=";
\* otherwise GET iff it contains "?" and "=" and not "image="; otherwise JSON.
ShapeSelection ==
    Shaped =>
        LET hasImage == Includes(shIn.url, ImageEq)
            queryLike == Includes(shIn.url, <<"?">>) /\ Includes(shIn.url, <<"=">>)
        IN /\ shOut.shape \in {"multipart", "get", "json"}
           /\ shOut.shape = "multipart" <=> (shIn.file /\ hasImage)
           /\ shOut.shape = "get" <=> (queryLike /\ ~hasImage)
           /\ shOut.shape = "json" <=> (~(shIn.file /\ hasImage) /\ ~(queryLike /\ ~hasImage))
           /\ shOut.method = (IF shOut.shape = "get" THEN "GET" ELSE "POST")

\* C6 witness: multipart chosen for an identifier that also holds "?" and "q="
ShapeSelectionWitness ==
    /\ Shaped
    /\ shOut.shape = "multipart"
    /\ Includes(shIn.url, <<"?">>)
    /\ Includes(shIn.url, <<"q", "=">>)
    /\ shIn.q # <<>>

\* C7, as stated: in the GET shape the target is the identifier with the value
\* of its q parameter replaced by the encoded text if it has one; else, if it
\* ends with "=", the identifier followed by the encoded text; else the
\* identifier followed by the encoded text.
GetTargetAsSpecified ==
    (Shaped /\ shOut.shape = "get") =>
        shOut.target =
            (IF Includes(shIn.url, <<"q", "=">>)
             THEN ReplaceQ(shIn.url, encodeURIComponent(shIn.q))
             ELSE shIn.url \o encodeURIComponent(shIn.q))

\* C8, as stated: an identifier with "?" and "=" and without "image=", with a
\* non-empty text, gets the GET shape and a target that contains the encoded
\* text exactly once.
EncodedQueryExactlyOnce ==
    (/\ Shaped
     /\ Includes(shIn.url, <<"?">>)
     /\ Includes(shIn.url, <<"=">>)
     /\ ~Includes(shIn.url, ImageEq)
     /\ shIn.q # <<>>)
    => /\ shOut.shape = "get"
       /\ Occurrences(shOut.target, encodeURIComponent(shIn.q)) = 1

-----------------------------------------------------------------------------
(* Properties of the Answer Normalizer *)

Normalized == nmOut # NoNormOut

Has(v) == v.kind # "undefined"

\* C9, as stated: first match wins among (a) the payload if it is a string,
\* (b) field result if the payload has it, (c) answer, (d) output,
\* (e) choices[0].text, (f) choices[0].message.content, (g) the JSON text.
NormalizerPriorityOriginal ==
    (Normalized /\ nmIn.kind \notin {"null", "undefined"}) =>
        nmOut =
            (IF nmIn.kind = "str" THEN nmIn
             ELSE IF Has(Field(nmIn, "result")) THEN Field(nmIn, "result")
             ELSE IF Has(Field(nmIn, "answer")) THEN Field(nmIn, "answer")
             ELSE IF Has(Field(nmIn, "output")) THEN Field(nmIn, "output")
             ELSE IF Has(Field(nmIn, "text")) THEN Field(nmIn, "text")
             ELSE IF Has(Field(nmIn, "content")) THEN Field(nmIn, "content")
             ELSE Str(JSONstringify(nmIn)))

NonEmpty(v) == v.kind = "str" /\ v.str # <<>>

\* C9, amended: first match wins among (a) the payload if it is a non-empty
\* string, (b)-(f) the field's value if the field is present and non-empty
\* (truthy), (g) the JSON text of any other truthy payload.
NormalizerPriority ==
    Normalized =>
        LET f(name) == Field(nmIn, name)
            skipped(names) == \A n \in names : ~NonEmpty(f(n))
        IN /\ NonEmpty(nmIn) => nmOut = nmIn
           /\ nmIn.kind = "obj" =>
                /\ NonEmpty(f("result")) => nmOut = f("result")
                /\ (skipped({"result"}) /\ NonEmpty(f("answer")))
                      => nmOut = f("answer")
                /\ (skipped({"result", "answer"}) /\ NonEmpty(f("output")))
                      => nmOut = f("output")
                /\ (skipped({"result", "answer", "output"}) /\ NonEmpty(f("text")))
                      => nmOut = f("text")
                /\ (skipped({"result", "answer", "output", "text"})
                      /\ NonEmpty(f("content")))
                      => nmOut = f("content")
                /\ skipped({"result", "answer", "output", "text", "content"})
                      => nmOut = Str(JSONstringify(nmIn))
           /\ (nmIn.kind = "num" /\ nmIn.num # 0) => nmOut = Str(JSONstringify(nmIn))

\* C9 witness: {"choices":[{"message":{"content":"C"}}]} gave "C"
NormalizerPriorityWitness ==
    /\ Normalized
    /\ nmIn = Obj(Undefined, Undefined, Undefined,
                  Arr(<<Choice(Undefined, Message(Str(<<"C">>)))>>))
    /\ nmOut = Str(<<"C">>)

\* C10, as stated: a string payload, the empty one included, comes back
\* unchanged, and the result is absent only for a null or undefined payload.
StringPassThroughOriginal ==
    Normalized =>
        /\ nmIn.kind = "str" => nmOut = nmIn
        /\ nmOut = Null <=> nmIn.kind \in {"null", "undefined"}

\* C10, amended: a non-empty string payload comes back unchanged, and the
\* result is absent exactly for the falsy payloads: null, undefined, the empty
\* string and 0.
StringPassThrough ==
    Normalized =>
        /\ (nmIn.kind = "str" /\ nmIn.str # <<>>) => nmOut = nmIn
        /\ nmOut = Null <=>
              \/ nmIn.kind \in {"null", "undefined"}
              \/ nmIn = Str(<<>>)
              \/ nmIn = Num(0)

\* C10 witness: the empty string gave absent
StringPassThroughWitness ==
    /\ Normalized
    /\ nmIn = Str(<<>>)
    /\ nmOut = Null

-----------------------------------------------------------------------------
(* Properties of the cache's lifetime, key and writes *)

\* C11: a cache lookup never returns an entry whose age since its latest
\* insertion exceeds CACHE_TTL: a request served from the cache found an entry
\* no older than CACHE_TTL, and a valid request that found an older entry was
\* not served from it but went on to the provider list (500 when that is empty).
CacheTTL ==
    /\ \A k \in Keys : cacheGet(k).present => now - cacheGet(k).at <= CACHE_TTL
    /\ \A s \in Slots :
          LET r == req[s]
          IN (r.pc # "idle" /\ Valid(r)) =>
                /\ r.hit => (r.seenAge >= 0 /\ r.seenAge <= CACHE_TTL)
                /\ r.seenAge > CACHE_TTL =>
                      /\ ~r.hit
                      /\ \/ r.res.status = 500
                         \/ /\ r.providers # <<>>
                            /\ r.log # <<>> \/ (r.pc = "calling" /\ r.attempt = 0)

\* C11 witness: a request found an entry older than CACHE_TTL, called the
\* provider and was answered by it
CacheTTLWitness ==
    \E s \in Slots :
        /\ req[s].pc = "done"
        /\ req[s].seenAge > CACHE_TTL
        /\ ~req[s].hit
        /\ req[s].log # <<>>
        /\ req[s].res.status = 200

AnsweredByProvider(s) ==
    /\ req[s].pc = "calling"
    /\ req'[s].pc = "done"
    /\ req'[s].res.status = 200
    /\ ~req'[s].hit

\* what a step may do to the cache: an entry is added or overwritten only at
\* the key of a request that obtains a usable answer in this step
OnlyAnswersWritten ==
    \A k \in Keys :
        (cache'[k] # cache[k] /\ cache'[k].present) =>
            \E s \in Slots :
                /\ AnsweredByProvider(s)
                /\ k = <<"c", "h", "a", "t", ":">> \o req'[s].q

\* what a step that ends request s does to the cache
EndOfRequestWrites(s) ==
    LET r == req'[s]
        k == <<"c", "h", "a", "t", ":">> \o r.q
    IN /\ AnsweredByProvider(s) =>
             /\ cache'[k].present
             /\ cache'[k].data = r.res.body
             /\ cache'[k].at = now
             /\ r.res.body = extractAnswer(r.log[Len(r.log)].data)
             /\ Truthy(r.res.body)
             /\ \A k2 \in Keys \ {k} : cache'[k2] = cache[k2]
       /\ (r # req[s] /\ r.pc = "done" /\ ~AnsweredByProvider(s)) =>
             /\ r.res.status \in {400, 500, 502} \/ r.hit
             /\ \A k2 \in Keys : cache'[k2] = cache[k2] \/ ~cache'[k2].present

\* C16: in every step, an entry is added or overwritten only by a request
\* that in this step obtains a usable answer from a provider, and only at the
\* key "chat:" + its text; that request writes there the complete normalized
\* answer that it returns, over whatever the key held, and leaves every other
\* key as it was. A step that ends a request with 400, 500, 502 or a cache hit
\* adds and overwrites nothing.
CacheWritesOnlyOnSuccess ==
    [][OnlyAnswersWritten /\ \A s \in Slots : EndOfRequestWrites(s)]_vars

\* C16 witness: a request has just obtained an answer from a provider and the
\* cache holds it under the request's key, next to the older entry of the
\* other key
CacheWritesWitness ==
    \E s \in Slots :
        LET r == req[s]
            k == cacheKey(r.q)
        IN /\ r.pc = "done"
           /\ r.res.status = 200
           /\ ~r.hit
           /\ cache[k].present
           /\ cache[k].data = r.res.body
           /\ cache[k].at = now
           /\ \E k2 \in Keys \ {k} : cache[k2].present /\ cache[k2].at < now

-----------------------------------------------------------------------------
(* Properties of the retry loop and the provider loop *)

\* C12, as stated: after a failed attempt with 0-based index i that is not the
\* last allowed one, callProvider sleeps exactly i * 200 ms.
LinearBackoffOriginal ==
    \A s \in Slots :
        req[s].pc = "sleeping" => req[s].delay = req[s].attempt * 200

\* C12, amended: after a failed attempt with 0-based index i that is not the
\* last allowed one, callProvider sleeps exactly (i + 1) * 200 ms (200 ms
\* after the first failure), and it sleeps only after such an attempt.
LinearBackoff ==
    \A s \in Slots :
        LET r == req[s]
        IN r.pc = "sleeping" =>
              /\ r.delay = (r.attempt + 1) * 200
              /\ r.attempt < ATTEMPTS - 1
              /\ r.log # <<>>
              /\ ~r.log[Len(r.log)].ok
              /\ r.log[Len(r.log)].attempt = r.attempt

\* C12 witness: asleep for 400 ms after the failure of attempt 1, having
\* slept 200 ms after the failure of attempt 0
LinearBackoffWitness ==
    \E s \in Slots :
        /\ req[s].pc = "sleeping"
        /\ req[s].attempt = 1
        /\ req[s].delay = 400
        /\ Len(req[s].log) = 2
        /\ ATTEMPTS = 3

\* C13: when a request to a provider succeeded but its payload normalizes to
\* nothing usable, no further request goes to that provider, nothing is cached
\* and nothing is answered for it, and the loop goes on with the next provider
\* of the list; after the last provider the request ends with 502
\* AllProvidersFailed.
UnusableAnswerSkipped ==
    /\ (\A s \in Slots : \A i \in 1..Len(req[s].log) :
            ~req[s].log[i].ok \/ ~Truthy(extractAnswer(req[s].log[i].data)))
          => \A k \in Keys : ~cache[k].present
    /\ \A s \in Slots :
        LET r == req[s]
            L == r.log
            unusable(i) == L[i].ok /\ ~Truthy(extractAnswer(L[i].data))
        IN \A i \in 1..Len(L) :
                 unusable(i) =>
                    /\ \A j \in 1..Len(L) : j > i => L[j].idx > L[i].idx
                    /\ i < Len(L) =>
                          (L[i + 1].idx = L[i].idx + 1 /\ L[i + 1].attempt = 0)
                    /\ i = Len(L) =>
                          /\ r.res.status # 200
                          /\ L[i].idx < Len(r.providers) =>
                                /\ r.pc = "calling"
                                /\ r.idx = L[i].idx + 1
                                /\ r.attempt = 0
                                /\ r.res = NoResponse
                          /\ L[i].idx = Len(r.providers) =>
                                /\ r.pc = "done"
                                /\ r.res.status = 502
                                /\ r.res.outcome = "AllProvidersFailed"

\* C13 witness: both providers of the list answered null at their first
\* attempt and the request ended with 502
UnusableAnswerWitness ==
    \E s \in Slots :
        LET r == req[s]
        IN /\ r.pc = "done"
           /\ ATTEMPTS = 2
           /\ Len(r.providers) = 2
           /\ Len(r.log) = 2
           /\ \A i \in 1..2 : r.log[i].ok /\ r.log[i].data = Null /\ r.log[i].idx = i
           /\ r.res.status = 502

\* C14: every element of the provider list, a repeated identifier included,
\* starts with attempt 0 and has its own budget of ATTEMPTS requests whatever
\* happened at the elements before it: an element all of whose requests
\* failed received exactly ATTEMPTS of them; one request sends at most
\* ATTEMPTS * (list length) requests.
RetryStateLocal ==
    \A s \in Slots :
        LET r == req[s]
            L == r.log
            left(k) == r.idx > k \/ (r.pc = "done" /\ r.res.status = 502)
        IN /\ Len(L) <= ATTEMPTS * Len(r.providers)
           /\ \A i \in 1..Len(L) :
                 (i = 1 \/ L[i - 1].idx # L[i].idx) => L[i].attempt = 0
           /\ (r.pc = "calling" /\ CallsTo(r, r.idx) = {}) => r.attempt = 0
           /\ \A k \in 1..Len(r.providers) :
                 /\ Cardinality(CallsTo(r, k)) <= ATTEMPTS
                 /\ (left(k) /\ \A i \in CallsTo(r, k) : ~L[i].ok)
                       => Cardinality(CallsTo(r, k)) = ATTEMPTS

\* C14 witness: the same identifier twice in the list, and each of the two
\* elements received its two requests, numbered 0 and 1
RetryStateLocalWitness ==
    \E s \in Slots :
        LET r == req[s]
        IN /\ ATTEMPTS = 2
           /\ Len(r.providers) = 2
           /\ r.providers[1] = r.providers[2]
           /\ Len(r.log) = 4
           /\ \A i \in 1..4 : ~r.log[i].ok
           /\ r.log[3].idx = 2 /\ r.log[3].attempt = 0
           /\ r.log[4].idx = 2 /\ r.log[4].attempt = 1

\* C19, as stated: a valid request that misses the cache and whose effective
\* provider list is empty ends with 500 NoProvidersConfigured, without any
\* outbound request and without a cache write, the effective list being the
\* override's items, trimmed, without the empty ones, whenever the request
\* carries an override, and the default list otherwise; otherwise the request
\* goes through exactly the effective list.
NoProvidersOriginal ==
    \A s \in Slots :
        LET r == req[s]
            supplied == r.custom.given
            kept == SelectSeq(r.custom.items, LAMBDA x : Trim(x) # <<>>)
            effective == IF supplied
                         THEN [i \in 1..Len(kept) |-> Trim(kept[i])]
                         ELSE PROVIDERS
        IN (r.pc # "idle" /\ Valid(r) /\ ~r.hit) =>
              /\ effective = <<>> =>
                    /\ r.pc = "done"
                    /\ r.res.status = 500
                    /\ r.res.outcome = "NoProvidersConfigured"
                    /\ r.log = <<>>
                    /\ \A k \in Keys : ~cache[k].present
              /\ effective # <<>> =>
                    /\ r.res.status # 500
                    /\ r.providers = effective
                    /\ \A i \in 1..Len(r.log) :
                          r.log[i].idx \in 1..Len(effective)

\* C19, amended: the same, the effective list being the override's items,
\* trimmed, without the empty ones, when the override is a non-empty string,
\* and the default list when the request carries no override or an empty one.
NoProviders ==
    \A s \in Slots :
        LET r == req[s]
            supplied == r.custom.given /\ r.custom.items # << <<>> >>
            kept == SelectSeq(r.custom.items, LAMBDA x : Trim(x) # <<>>)
            effective == IF supplied
                         THEN [i \in 1..Len(kept) |-> Trim(kept[i])]
                         ELSE PROVIDERS
        IN (r.pc # "idle" /\ Valid(r) /\ ~r.hit) =>
              /\ effective = <<>> =>
                    /\ r.pc = "done"
                    /\ r.res.status = 500
                    /\ r.res.outcome = "NoProvidersConfigured"
                    /\ r.log = <<>>
                    /\ \A k \in Keys : ~cache[k].present
              /\ effective # <<>> =>
                    /\ r.res.status # 500
                    /\ r.providers = effective
                    /\ \A i \in 1..Len(r.log) :
                          r.log[i].idx \in 1..Len(effective)

\* C19 witness: an override of blanks, supplied while the default list is not
\* empty, ended the request with 500
NoProvidersWitness ==
    \E s \in Slots :
        /\ req[s].pc = "done"
        /\ req[s].res.status = 500
        /\ PROVIDERS # <<>>
        /\ req[s].custom.given
        /\ req[s].custom.items = << <<" ">>, <<" ">> >>
        /\ req[s].log = <<>>

-----------------------------------------------------------------------------
(* Properties of requests in flight together *)

-----------------------------------------------------------------------------
(* Termination *)

\* the response is one of the four the handler can send
FinalResponse(res) ==
    \/ res.status = 200 /\ res.outcome = "Answer" /\ Truthy(res.body)
    \/ res.status = 400 /\ res.outcome = "MissingInput"
    \/ res.status = 500 /\ res.outcome = "NoProvidersConfigured"
    \/ res.status = 502 /\ res.outcome = "AllProvidersFailed"

\* C18: when every outbound request is answered or fails and every backoff
\* timer fires, a request that is waiting for a provider or asleep eventually
\* ends; a request that has ended has sent one of the four responses (never
\* the failure of one attempt or of one provider), it sent none before, and
\* it sends none after.
Termination ==
    /\ [](\A s \in Slots :
            /\ req[s].pc = "done" => FinalResponse(req[s].res)
            /\ req[s].pc # "done" => req[s].res = NoResponse)
    /\ [][\A s \in Slots : req[s].pc = "done" => req'[s] = req[s]]_vars
    /\ \A s \in Slots :
          (req[s].pc \in {"calling", "sleeping"}) ~> (req[s].pc = "done")

\* C18 witness: a request ended with an answer after a failed attempt, an
\* unusable answer, and another failed attempt
TerminationWitness ==
    \E s \in Slots :
        LET r == req[s]
        IN /\ r.pc = "done"
           /\ r.res.status = 200
           /\ Len(r.log) = 4
           /\ ~r.log[1].ok
           /\ r.log[2].ok /\ r.log[2].data = Null
           /\ ~r.log[3].ok
           /\ r.log[4].ok

-----------------------------------------------------------------------------
(* Properties of the Credential Resolver *)

\* the positions of the table whose prefix is a literal prefix of url
MatchingPrefixes(url) ==
    {i \in 1..Len(KEY_MAP) :
        /\ Len(KEY_MAP[i].prefix) <= Len(url)
        /\ SubSeq(url, 1, Len(KEY_MAP[i].prefix)) = KEY_MAP[i].prefix}

\* the credential of the first of them, null when there is none
FirstCredential(url) ==
    IF MatchingPrefixes(url) = {} THEN Null
    ELSE Str(KEY_MAP[CHOOSE i \in MatchingPrefixes(url) :
                        \A j \in MatchingPrefixes(url) : i <= j].key)

\* findKeyForProvider returns the credential of the first matching prefix of
\* the table, null exactly when no prefix matches, and the table stays what
\* was parsed at start
ResolverContract ==
    /\ findKeyForProvider(shIn.url) = FirstCredential(shIn.url)
    /\ findKeyForProvider(shIn.url) = Null <=> MatchingPrefixes(shIn.url) = {}
    /\ KEY_MAP = ParseKeyMap(<<>>, shIn.env)

\* C20, as stated: findKeyForProvider(url) returns the credential of the first
\* table prefix, in iteration order, that is a literal prefix of url, and null
\* if and only if there is none; the table is never modified; the outbound
\* request, of whichever shape, carries Authorization: Bearer <credential>
\* exactly when a credential was resolved for the provider identifier.
CredentialResolution ==
    Shaped =>
        /\ ResolverContract
        /\ shOut.shape \in {"multipart", "get", "json"}
        /\ shOut.auth =
              (IF FirstCredential(shIn.url) # Null
               THEN Str(<<"B", "e", "a", "r", "e", "r", " ">>
                        \o FirstCredential(shIn.url).str)
               ELSE Undefined)

\* what holds of the code: the same, for the tables in which the credential
\* resolved is not the empty string
CredentialResolutionNonEmpty ==
    (Shaped /\ FirstCredential(shIn.url) # Str(<<>>)) =>
        /\ ResolverContract
        /\ shOut.shape \in {"multipart", "get", "json"}
        /\ shOut.auth =
              (IF FirstCredential(shIn.url) # Null
               THEN Str(<<"B", "e", "a", "r", "e", "r", " ">>
                        \o FirstCredential(shIn.url).str)
               ELSE Undefined)

====
